---- MODULE Spec2Model ----
(***************************************************************************)
(* song-detector.js: a ring buffer fed by the stdout of a capture          *)
(* subprocess, and the main() sequence that switches the input device,     *)
(* starts the capture, waits, snapshots the ring on a keypress, hands the  *)
(* snapshot to the recognition call and restores the device.               *)
(*                                                                         *)
(* Node runs main(), the stdout 'data' listener and the 'error' listener   *)
(* on one event loop: a listener runs only while main() is suspended at an *)
(* await, and main() resumes only after a listener has returned.           *)
(***************************************************************************)
EXTENDS Integers, Sequences, FiniteSets, TLC

\* ---------------------------------------------------------------- bounds
\* Largest ring capacity explored (the source's BUFFER_SIZE is 352800).
MaxCap == 6
\* Longest chunk one 'data' event delivers.
MaxChunk == 9
\* Scaled exec maxBuffer option (the source passes 50 * 1024 * 1024).
maxBuffer == 7

\* ------------------------------------------------------------- constants
BLACKHOLE_NAME == "BlackHole 2ch"

\* The input device that is active when the program starts.
StartDevice == "Built-in Microphone"

\* The i-th byte (1-based) the capture process emits.  The copy loop never
\* looks at byte values, so the stream is tagged by position; every value is
\* non-zero, which tells stream bytes from the zero fill of Buffer.alloc.
StreamByte(i) == ((i - 1) % 255) + 1

Min(a, b) == IF a < b THEN a ELSE b

\* Buffer.alloc(n): n zero bytes.
BufferAlloc(n) == [i \in 1..n |-> 0]

\* buf.slice(start, end) with 0-based start (inclusive) and end (exclusive).
BufferSlice(buf, start, end) == SubSeq(buf, start + 1, end)

\* source.copy(target, targetStart, sourceStart, sourceEnd): the target with
\* source[sourceStart..sourceEnd) laid over it from targetStart on; sourceEnd
\* is clipped to the source's length and bytes that would fall past the end
\* of the target are dropped.
BufferCopy(source, target, targetStart, sourceStart, sourceEnd) ==
    [i \in 1..Len(target) |->
        IF /\ i - 1 >= targetStart
           /\ i - 1 - targetStart < Min(sourceEnd, Len(source)) - sourceStart
        THEN source[sourceStart + (i - 1 - targetStart) + 1]
        ELSE target[i]]

VARIABLES
    BUFFER_SIZE,      \* ring capacity in bytes, fixed at start-up
    circularBuffer,   \* the ring storage
    writeOffset,      \* index (0-based) of the next byte to overwrite
    ffmpegProcess,    \* "null" or the state of the child process object
    pc,               \* where main() is
    originalInput,    \* result of getCurrentInput(), "none" before
    audioBuffer,      \* result of getSnapshot() in main(), <<>> before
    listener,         \* "idle", or "writing" inside the 'data' listener
    chunk,            \* argument of the running write call
    chunkOffset,      \* locals of writeChunkToCircularBuffer
    remaining,
    stdoutLen,        \* bytes exec has counted against maxBuffer
    currentDevice,    \* the active input device
    exitStatus,       \* "running", or how the process ended
    logged,           \* conditions written to the console
    \* history variables
    written,          \* every byte passed to a write call so far, in order
    offsetBefore,     \* writeOffset when the running write call was entered
    iters,            \* loop iterations of the running write call so far
    committed,        \* <<storage, offset>> after the last complete write
    switchCalls,      \* arguments of the switchInput calls, in order
    restoreCount,     \* switchInput(originalInput) calls made by finally
    killCount,        \* ffmpegProcess.kill('SIGINT') calls
    spawnCount,       \* exec() calls made
    visited,          \* the positions main() has been at, in order
    triggerAt,        \* bytes written when the keypress arrived, -1 before
    snapshotOf,       \* what the ring and the listener were at getSnapshot()
    handoff           \* "none", or the outcome of the recognition call

ring == <<BUFFER_SIZE, circularBuffer, writeOffset>>
writer == <<listener, chunk, chunkOffset, remaining, written, offsetBefore,
            iters, committed>>
capture == <<ffmpegProcess, stdoutLen, spawnCount, killCount>>
routing == <<originalInput, currentDevice, switchCalls, restoreCount>>
history == <<visited, triggerAt>>
vars == <<ring, writer, capture, routing, pc, audioBuffer, snapshotOf,
          exitStatus, logged, handoff, history>>

\* ------------------------------------------------------------ ring buffer

\* getSnapshot() with both parts copied to their ring positions: the storage
\* is returned unrotated.
getSnapshot_Unrotated(buf, off) ==
    LET snapshot  == BufferAlloc(Len(buf))
        endPart   == BufferSlice(buf, off, Len(buf))
        startPart == BufferSlice(buf, 0, off)
        s1 == BufferCopy(endPart, snapshot, off, 0, Len(endPart))
    IN  BufferCopy(startPart, s1, 0, 0, Len(startPart))

\* getSnapshot() with startPart copied to targetStart writeOffset instead of
\* endPart.length.
getSnapshot_StartAtOffset(buf, off) ==
    LET snapshot  == BufferAlloc(Len(buf))
        endPart   == BufferSlice(buf, off, Len(buf))
        startPart == BufferSlice(buf, 0, off)
        s1 == BufferCopy(endPart, snapshot, 0, 0, Len(endPart))
    IN  BufferCopy(startPart, s1, off, 0, Len(startPart))

\* getSnapshot(), lines 77-87, as a function of the ring state.
getSnapshot(buf, off) ==
    LET snapshot  == BufferAlloc(Len(buf))
        endPart   == BufferSlice(buf, off, Len(buf))
        startPart == BufferSlice(buf, 0, off)
        s1 == BufferCopy(endPart, snapshot, 0, 0, Len(endPart))
    IN  BufferCopy(startPart, s1, Len(endPart), 0, Len(startPart))

\* The loop body with chunk.copy always reading from the start of the chunk
\* (chunkOffset left out of the source range).
WriteIteration_NoChunkOffset(s, c, size) ==
    LET spaceUntilEnd == size - s.off
        bytesToWrite  == Min(spaceUntilEnd, s.remaining)
    IN  [buf         |-> BufferCopy(c, s.buf, s.off, 0, bytesToWrite),
         off         |-> (s.off + bytesToWrite) % size,
         chunkOffset |-> s.chunkOffset + bytesToWrite,
         remaining   |-> s.remaining - bytesToWrite]

\* The loop body with writeOffset advanced by spaceUntilEnd instead of
\* bytesToWrite.
WriteIteration_AdvanceToEnd(s, c, size) ==
    LET spaceUntilEnd == size - s.off
        bytesToWrite  == Min(spaceUntilEnd, s.remaining)
    IN  [buf         |-> BufferCopy(c, s.buf, s.off, s.chunkOffset,
                                    s.chunkOffset + bytesToWrite),
         off         |-> (s.off + spaceUntilEnd) % size,
         chunkOffset |-> s.chunkOffset + bytesToWrite,
         remaining   |-> s.remaining - bytesToWrite]

\* The loop body copying one byte per iteration, whatever room is left.
WriteIteration_OneByte(s, c, size) ==
    LET bytesToWrite == Min(1, s.remaining)
    IN  [buf         |-> BufferCopy(c, s.buf, s.off, s.chunkOffset,
                                    s.chunkOffset + bytesToWrite),
         off         |-> (s.off + bytesToWrite) % size,
         chunkOffset |-> s.chunkOffset + bytesToWrite,
         remaining   |-> s.remaining - bytesToWrite]

\* The loop body without the "% BUFFER_SIZE" of line 104.
WriteIteration_NoModulo(s, c, size) ==
    LET spaceUntilEnd == size - s.off
        bytesToWrite  == Min(spaceUntilEnd, s.remaining)
    IN  [buf         |-> BufferCopy(c, s.buf, s.off, s.chunkOffset,
                                    s.chunkOffset + bytesToWrite),
         off         |-> s.off + bytesToWrite,
         chunkOffset |-> s.chunkOffset + bytesToWrite,
         remaining   |-> s.remaining - bytesToWrite]

\* One iteration of the while loop of writeChunkToCircularBuffer, lines
\* 94-106, on the state s = [buf, off, chunkOffset, remaining].
WriteIteration(s, c, size) ==
    LET spaceUntilEnd == size - s.off
        bytesToWrite  == Min(spaceUntilEnd, s.remaining)
    IN  [buf         |-> BufferCopy(c, s.buf, s.off, s.chunkOffset,
                                    s.chunkOffset + bytesToWrite),
         off         |-> (s.off + bytesToWrite) % size,
         chunkOffset |-> s.chunkOffset + bytesToWrite,
         remaining   |-> s.remaining - bytesToWrite]

RECURSIVE WriteLoop(_, _, _)
WriteLoop(s, c, size) ==
    IF s.remaining > 0 THEN WriteLoop(WriteIteration(s, c, size), c, size)
    ELSE s

\* writeChunkToCircularBuffer(chunk), lines 89-108, run to completion from
\* the ring state <<buf, off>>.
writeChunkToCircularBuffer(buf, off, c) ==
    LET s == WriteLoop([buf |-> buf, off |-> off, chunkOffset |-> 0,
                        remaining |-> Len(c)], c, Len(buf))
    IN  <<s.buf, s.off>>

\* ------------------------------------------------------------------ Init
Init ==
    /\ BUFFER_SIZE \in 1..MaxCap
    /\ circularBuffer = BufferAlloc(BUFFER_SIZE)
    /\ writeOffset = 0
    /\ ffmpegProcess = "null"
    /\ pc = "Setup"
    /\ originalInput = "none"
    /\ audioBuffer = <<>>
    /\ listener = "idle"
    /\ chunk = <<>>
    /\ chunkOffset = 0
    /\ remaining = 0
    /\ stdoutLen = 0
    /\ currentDevice = StartDevice
    /\ exitStatus = "running"
    /\ logged = {}
    /\ written = <<>>
    /\ offsetBefore = 0
    /\ iters = 0
    /\ committed = <<circularBuffer, writeOffset>>
    /\ switchCalls = <<>>
    /\ restoreCount = 0
    /\ killCount = 0
    /\ spawnCount = 0
    /\ snapshotOf = [taken |-> FALSE]
    /\ visited = <<"Setup">>
    /\ triggerAt = -1
    /\ handoff = "none"

\* --------------------------------------------------- capture subprocess

\* main() is parked at an await, so the event loop can run a listener.
MainSuspended == pc \in {"WarmingUp", "AwaitingTrigger", "Handoff"}

\* The event loop is free: main() is parked and no listener is running.
LoopFree == MainSuspended /\ listener = "idle" /\ exitStatus = "running"

\* getSnapshot() returning the ring's own memory instead of a new buffer.
SnapshotStorage_Ring == "ring"

\* Line 78: the buffer getSnapshot() returns is a new allocation ("fresh");
\* "ring" would be a buffer on the memory of circularBuffer.
SnapshotStorage == "fresh"

\* stdout 'data' event, lines 125-129: exec's own listener counts the chunk
\* against maxBuffer (and kills the child once it is exceeded), then the
\* listener of line 127 enters writeChunkToCircularBuffer(chunk).
DataEvent ==
    /\ LoopFree
    /\ ffmpegProcess = "running"
    /\ \E n \in 0..MaxChunk :
        /\ chunk' = [i \in 1..n |-> StreamByte(Len(written) + i)]
        /\ stdoutLen' = stdoutLen + n
        /\ ffmpegProcess' = IF stdoutLen + n > maxBuffer THEN "overflowed"
                            ELSE ffmpegProcess
        /\ remaining' = n
    /\ chunkOffset' = 0
    /\ listener' = "writing"
    /\ written' = written \o chunk'
    /\ offsetBefore' = writeOffset
    /\ iters' = 0
    /\ UNCHANGED <<ring, committed, spawnCount, killCount, routing, pc,
                   audioBuffer, snapshotOf, exitStatus, logged, handoff,
                   history>>

\* One pass through the body of the while loop, lines 93-107.  A snapshot
\* that lived on the ring's memory would change with the ring.
WriteStep ==
    /\ listener = "writing"
    /\ exitStatus = "running"
    /\ remaining > 0
    /\ LET s == WriteIteration([buf |-> circularBuffer, off |-> writeOffset,
                                chunkOffset |-> chunkOffset,
                                remaining |-> remaining], chunk, BUFFER_SIZE)
       IN  /\ circularBuffer' = s.buf
           /\ writeOffset' = s.off
           /\ chunkOffset' = s.chunkOffset
           /\ remaining' = s.remaining
    /\ iters' = iters + 1
    /\ audioBuffer' = IF snapshotOf.taken /\ SnapshotStorage = "ring"
                      THEN circularBuffer' ELSE audioBuffer
    /\ UNCHANGED <<BUFFER_SIZE, listener, chunk, written, offsetBefore,
                   committed, capture, routing, pc, snapshotOf, exitStatus,
                   logged, handoff, history>>

\* The loop test of line 93 fails: the write call and the listener return,
\* and the locals of the call are gone.
WriteReturn ==
    /\ listener = "writing"
    /\ exitStatus = "running"
    /\ remaining = 0
    /\ listener' = "idle"
    /\ committed' = <<circularBuffer, writeOffset>>
    /\ chunk' = <<>>
    /\ chunkOffset' = 0
    /\ offsetBefore' = 0
    /\ iters' = 0
    /\ UNCHANGED <<ring, remaining, written, capture, routing, pc,
                   audioBuffer, snapshotOf, exitStatus, logged, handoff,
                   history>>

\* The child's 'error' event, lines 131-133: logged, nothing else.  It is
\* how a spawn that failed after exec() returned is reported.
ProcessError ==
    /\ LoopFree
    /\ ffmpegProcess \in {"running", "unspawned"}
    /\ ffmpegProcess' = IF ffmpegProcess = "unspawned" THEN "spawn failed"
                        ELSE "errored"
    /\ logged' = logged \cup {"FFmpeg error"}
    /\ UNCHANGED <<ring, writer, stdoutLen, spawnCount, killCount, routing,
                   pc, audioBuffer, snapshotOf, exitStatus, handoff, history>>

\* The child exits mid-stream: no listener is registered for it.
ProcessExit ==
    /\ LoopFree
    /\ ffmpegProcess = "running"
    /\ ffmpegProcess' = "exited"
    /\ UNCHANGED <<ring, writer, stdoutLen, spawnCount, killCount, routing,
                   pc, audioBuffer, snapshotOf, exitStatus, logged, handoff,
                   history>>

\* ------------------------------------------------------------ main()

\* main() moves to position p.
Goto(p) == pc' = p /\ visited' = Append(visited, p)

\* switchInput(device), lines 67-74: execSync either switches the device or
\* throws, and the throw is caught and logged.
switchInput(device) ==
    /\ switchCalls' = Append(switchCalls, device)
    /\ \E ok \in BOOLEAN :
        /\ currentDevice' = IF ok THEN device ELSE currentDevice
        /\ logged' = IF ok THEN logged
                     ELSE logged \cup {"Failed to switch input"}

\* getCurrentInput() with a catch block that logs and returns: main() goes
\* on with an undefined device name.
Setup_FailureContinues ==
    /\ pc = "Setup"
    /\ exitStatus = "running"
    /\ \/ /\ originalInput' = currentDevice
          /\ UNCHANGED logged
       \/ /\ logged' = logged \cup {"SwitchAudioSource not found"}
          /\ originalInput' = "undefined"
    /\ Goto("Routed")
    /\ UNCHANGED <<ring, writer, capture, currentDevice, switchCalls,
                   restoreCount, audioBuffer, snapshotOf, exitStatus,
                   handoff, triggerAt>>

\* Line 308, getCurrentInput(), lines 57-64: the device name, or
\* process.exit(1) when SwitchAudioSource cannot be run.
Setup ==
    /\ pc = "Setup"
    /\ exitStatus = "running"
    /\ \/ /\ originalInput' = currentDevice
          /\ Goto("Routed")
          /\ UNCHANGED <<exitStatus, logged>>
       \/ /\ logged' = logged \cup {"SwitchAudioSource not found"}
          /\ exitStatus' = "exit1"
          /\ Goto("Done")
          /\ UNCHANGED originalInput
    /\ UNCHANGED <<ring, writer, capture, currentDevice, switchCalls,
                   restoreCount, audioBuffer, snapshotOf, handoff,
                   triggerAt>>

\* Lines 311-315: switchInput(BLACKHOLE_NAME); the next statement of main()
\* is the call of startContinuousRecording().
Routed ==
    /\ pc = "Routed"
    /\ exitStatus = "running"
    /\ switchInput(BLACKHOLE_NAME)
    /\ Goto("Recording")
    /\ UNCHANGED <<ring, writer, capture, originalInput, restoreCount,
                   audioBuffer, snapshotOf, exitStatus, handoff, triggerAt>>

\* startContinuousRecording() followed at once by the trigger wait: the
\* warm-up await of line 320 left out.
Recording_NoWarmup ==
    /\ pc = "Recording"
    /\ exitStatus = "running"
    /\ spawnCount' = spawnCount + 1
    /\ \/ /\ ffmpegProcess' \in {"running", "unspawned"}
          /\ Goto("AwaitingTrigger")
       \/ /\ Goto("TearingDown")
          /\ UNCHANGED ffmpegProcess
    /\ UNCHANGED <<ring, writer, stdoutLen, killCount, routing, audioBuffer,
                   snapshotOf, exitStatus, logged, handoff, triggerAt>>

\* Lines 315-320, startContinuousRecording(), lines 112-134.  exec() returns
\* a child object and main() goes on to await the warm-up timer: the child
\* runs, or its spawn has failed and its 'error' event is pending.  Or
\* exec() throws before ffmpegProcess is assigned and control passes to
\* finally.
Recording ==
    /\ pc = "Recording"
    /\ exitStatus = "running"
    /\ spawnCount' = spawnCount + 1
    /\ \/ /\ ffmpegProcess' \in {"running", "unspawned"}
          /\ Goto("WarmingUp")
       \/ /\ Goto("TearingDown")
          /\ UNCHANGED ffmpegProcess
    /\ UNCHANGED <<ring, writer, stdoutLen, killCount, routing, audioBuffer,
                   snapshotOf, exitStatus, logged, handoff, triggerAt>>

\* Lines 320-322: the warm-up timer fires (after the pending 'error' event
\* of a failed spawn, which is emitted on the next tick) and main() calls
\* waitForKeypress(), lines 293-305, which parks main() on stdin, or
\* rejects when process.stdin.setRawMode throws (stdin is not a terminal).
WarmupDone ==
    /\ pc = "WarmingUp"
    /\ LoopFree
    /\ ffmpegProcess # "unspawned"
    /\ \/ Goto("AwaitingTrigger")
       \/ Goto("TearingDown")
    /\ UNCHANGED <<ring, writer, capture, routing, audioBuffer, snapshotOf,
                   exitStatus, logged, handoff, triggerAt>>

\* A keypress handled on a second thread: main() resumes although the
\* stdout listener is still inside its write loop.
Keypress_Preempting ==
    /\ pc = "AwaitingTrigger"
    /\ exitStatus = "running"
    /\ Goto("Snapshotting")
    /\ triggerAt' = Len(written)
    /\ UNCHANGED <<ring, writer, capture, routing, audioBuffer, snapshotOf,
                   exitStatus, logged, handoff>>

\* Lines 298-303: the stdin 'data' listener resolves the promise.
Keypress ==
    /\ pc = "AwaitingTrigger"
    /\ LoopFree
    /\ Goto("Snapshotting")
    /\ triggerAt' = Len(written)
    /\ UNCHANGED <<ring, writer, capture, routing, audioBuffer, snapshotOf,
                   exitStatus, logged, handoff>>

\* Lines 324-330: main() takes the snapshot and calls
\* recognizeWithRapidAPI(audioBuffer), which awaits the HTTP request.  Had
\* the snapshot been built on the ring's memory, the two copies of lines
\* 83-84 would have rearranged the ring.
Snapshotting ==
    /\ pc = "Snapshotting"
    /\ exitStatus = "running"
    /\ audioBuffer' = getSnapshot(circularBuffer, writeOffset)
    /\ circularBuffer' = IF SnapshotStorage = "ring" THEN audioBuffer'
                         ELSE circularBuffer
    /\ snapshotOf' = [taken |-> TRUE, listener |-> listener,
                      committed |-> committed, total |-> Len(written),
                      left |-> <<circularBuffer', writeOffset>>,
                      bytes |-> audioBuffer']
    /\ Goto("Handoff")
    /\ UNCHANGED <<BUFFER_SIZE, writeOffset, writer, capture, routing,
                   exitStatus, logged, handoff, triggerAt>>

\* recognizeWithRapidAPI without its try/catch, under a main() whose
\* rejection ends the process: a failed request skips the finally block.
Handoff_FailureExits ==
    /\ pc = "Handoff"
    /\ LoopFree
    /\ \E outcome \in {"resolved", "failed"} :
        /\ handoff' = outcome
        /\ logged' = logged
        /\ exitStatus' = IF outcome = "failed" THEN "exit1" ELSE exitStatus
        /\ Goto(IF outcome = "failed" THEN "Done" ELSE "TearingDown")
    /\ UNCHANGED <<ring, writer, capture, routing, audioBuffer, snapshotOf,
                   triggerAt>>

\* Lines 230-289 and 330-333: the request resolves (with a match or with
\* none) or rejects; the rejection is caught and logged inside
\* recognizeWithRapidAPI, whose promise resolves either way.
Handoff ==
    /\ pc = "Handoff"
    /\ LoopFree
    /\ \E outcome \in {"resolved", "failed"} :
        /\ handoff' = outcome
        /\ logged' = IF outcome = "failed"
                     THEN logged \cup {"RapidAPI error"} ELSE logged
    /\ Goto("TearingDown")
    /\ UNCHANGED <<ring, writer, capture, routing, audioBuffer, snapshotOf,
                   exitStatus, triggerAt>>

\* The finally block, lines 335-341: signal the child if there is one,
\* switchInput(originalInput), process.exit(0).
TearingDown ==
    /\ pc = "TearingDown"
    /\ exitStatus = "running"
    /\ IF ffmpegProcess # "null"
       THEN /\ killCount' = killCount + 1
            /\ ffmpegProcess' = IF ffmpegProcess = "running" THEN "signalled"
                                ELSE ffmpegProcess
       ELSE UNCHANGED <<killCount, ffmpegProcess>>
    /\ switchInput(originalInput)
    /\ restoreCount' = restoreCount + 1
    /\ exitStatus' = "exit0"
    /\ Goto("Done")
    /\ UNCHANGED <<ring, writer, stdoutLen, spawnCount, originalInput,
                   audioBuffer, snapshotOf, handoff, triggerAt>>

\* The process is asked to terminate (SIGTERM, SIGHUP, ...).  The source
\* registers no signal handler, so the default disposition ends the process
\* where it stands: no JavaScript runs, finally included.
Terminate ==
    /\ exitStatus = "running"
    /\ exitStatus' = "signal"
    /\ Goto("Done")
    /\ UNCHANGED <<ring, writer, capture, routing, audioBuffer, snapshotOf,
                   logged, handoff, triggerAt>>

Next ==
    \/ Setup
    \/ Routed
    \/ Recording
    \/ WarmupDone
    \/ Keypress
    \/ Snapshotting
    \/ Handoff
    \/ TearingDown
    \/ Terminate
    \/ DataEvent
    \/ WriteStep
    \/ WriteReturn
    \/ ProcessError
    \/ ProcessExit

Spec == Init /\ [][Next]_vars

\* ================================================================ claims

\* What snapshot() would return in the current state.
SnapshotNow == getSnapshot(circularBuffer, writeOffset)

\* A write call has run its loop to the end and is about to return.
WriteDone == listener = "writing" /\ remaining = 0

\* No write call is part-way through its chunk.
BetweenWrites == listener = "idle" \/ WriteDone

\* The last n elements of a sequence.
LastN(q, n) == SubSeq(q, Len(q) - n + 1, Len(q))

Zeros(n) == [i \in 1..n |-> 0]

\* storage[off:capacity] ++ storage[0:off]
Rotated(buf, off) == SubSeq(buf, off + 1, Len(buf)) \o SubSeq(buf, 1, off)

\* C1: once at least capacity bytes have been written to the fresh buffer,
\* snapshot() is the last capacity bytes of the written stream, oldest
\* first; with capacity 6 and one write of 01..09 it is 04..09.
C1_SnapshotIsLastCapacityBytes ==
    /\ (BetweenWrites /\ Len(written) >= BUFFER_SIZE)
          => SnapshotNow = LastN(written, BUFFER_SIZE)
    /\ (snapshotOf.taken /\ snapshotOf.total >= BUFFER_SIZE)
          => audioBuffer = SubSeq(written,
                                  snapshotOf.total - BUFFER_SIZE + 1,
                                  snapshotOf.total)
    /\ (/\ BUFFER_SIZE = 6
        /\ WriteDone
        /\ chunk = <<1, 2, 3, 4, 5, 6, 7, 8, 9>>
        /\ written = chunk)
          => SnapshotNow = <<4, 5, 6, 7, 8, 9>>

C1_Witness ==
    /\ BUFFER_SIZE = 6
    /\ written = <<1, 2, 3, 4, 5, 6, 7, 8, 9>>
    /\ snapshotOf.taken
    /\ snapshotOf.total = 9
    /\ pc = "Handoff"
    /\ audioBuffer = <<4, 5, 6, 7, 8, 9>>

\* C2: every run in which getCurrentInput() succeeded has made exactly one
\* switchInput(originalInput) call when it ends, and no run makes two.
\* Stated for the runs that got as far as switching the device away, the
\* ones in which a missing restoration leaves the wrong device active.
C2_RestoredExactlyOnce ==
    /\ restoreCount <= 1
    /\ (pc = "Done" /\ originalInput # "none" /\ Len(switchCalls) >= 1)
          => restoreCount = 1

\* C3: a process terminated from outside after the device switch has still
\* signalled the capture subprocess and restored the original device.
C3_TeardownOnTermination ==
    (exitStatus = "signal" /\ Len(switchCalls) >= 1)
        => /\ restoreCount = 1
           /\ ffmpegProcess # "null" => killCount = 1

\* C4: every snapshot is taken while no write call is running and equals
\* storage[writeOffset:capacity] ++ storage[0:writeOffset] of the ring as
\* the last complete write call left it.
C4_SnapshotNotTorn ==
    /\ pc = "Snapshotting"
          => listener = "idle" /\ committed = <<circularBuffer, writeOffset>>
    /\ snapshotOf.taken
          => /\ snapshotOf.listener = "idle"
             /\ audioBuffer = Rotated(snapshotOf.committed[1],
                                      snapshotOf.committed[2])

C4_Witness ==
    /\ snapshotOf.taken
    /\ snapshotOf.total > BUFFER_SIZE
    /\ snapshotOf.committed[2] > 0
    /\ listener = "writing"
    /\ iters = 1
    /\ remaining > 0

\* C5: while fewer than capacity bytes have been written to the fresh
\* buffer, snapshot() is capacity - W zero bytes followed by the W written
\* bytes in order.
C5_ColdBufferPrefix ==
    /\ (BetweenWrites /\ Len(written) < BUFFER_SIZE)
          => SnapshotNow = Zeros(BUFFER_SIZE - Len(written)) \o written
    /\ (snapshotOf.taken /\ snapshotOf.total < BUFFER_SIZE)
          => audioBuffer = Zeros(BUFFER_SIZE - snapshotOf.total)
                             \o SubSeq(written, 1, snapshotOf.total)

C5_Witness ==
    /\ snapshotOf.taken
    /\ snapshotOf.total = 3
    /\ BUFFER_SIZE = 5
    /\ audioBuffer = <<0, 0, 1, 2, 3>>

\* The written stream cut into chunks of length 1.
Singletons(q) == [i \in 1..Len(q) |-> <<q[i]>>]

\* The ring state after the write calls of a sequence of chunks.
RECURSIVE WriteAll(_, _, _)
WriteAll(buf, off, chunks) ==
    IF chunks = <<>> THEN <<buf, off>>
    ELSE LET r == writeChunkToCircularBuffer(buf, off, Head(chunks))
         IN  WriteAll(r[1], r[2], Tail(chunks))

\* C6: whatever chunks the stream arrived in, storage and writeOffset after
\* the writes are what one write of the whole stream, and what byte-by-byte
\* writes, leave in the fresh buffer (and so is snapshot()); and one write
\* call leaves any ring state as byte-by-byte writes of its chunk would.
C6_ChunkingInvariance ==
    /\ BetweenWrites =>
        /\ <<circularBuffer, writeOffset>>
             = writeChunkToCircularBuffer(BufferAlloc(BUFFER_SIZE), 0, written)
        /\ <<circularBuffer, writeOffset>>
             = WriteAll(BufferAlloc(BUFFER_SIZE), 0, Singletons(written))
    /\ WriteDone =>
          <<circularBuffer, writeOffset>>
             = WriteAll(committed[1], committed[2], Singletons(chunk))

C6_Witness ==
    /\ WriteDone
    /\ BUFFER_SIZE = 4
    /\ Len(chunk) = 9
    /\ Len(written) = 12
    /\ iters = 3

\* C7: a complete write call leaves writeOffset at (offset before + chunk
\* length) mod capacity; a chunk of a multiple of capacity bytes leaves it
\* where it was; capacity 4, writes of 3 then 4 bytes end at offset 3.
C7_OffsetAfterWrite ==
    WriteDone =>
        /\ writeOffset = (offsetBefore + Len(chunk)) % BUFFER_SIZE
        /\ Len(chunk) % BUFFER_SIZE = 0 => writeOffset = offsetBefore
        /\ (/\ BUFFER_SIZE = 4
            /\ written = <<1, 2, 3, 4, 5, 6, 7>>
            /\ chunk = <<4, 5, 6, 7>>)
              => writeOffset = 3 /\ SnapshotNow = <<4, 5, 6, 7>>

C7_Witness ==
    /\ WriteDone
    /\ BUFFER_SIZE = 4
    /\ written = <<1, 2, 3, 4, 5, 6, 7>>
    /\ chunk = <<4, 5, 6, 7>>
    /\ offsetBefore = 3
    /\ writeOffset = 3

\* C8: 0 <= writeOffset < capacity in every state, between the iterations
\* of the write loop too, and the storage keeps its length.
C8_OffsetInRange ==
    /\ writeOffset >= 0
    /\ writeOffset < BUFFER_SIZE
    /\ Len(circularBuffer) = BUFFER_SIZE

C8_Witness ==
    /\ listener = "writing"
    /\ iters = 2
    /\ remaining > 0
    /\ writeOffset = 0
    /\ offsetBefore > 0

\* C9: in every state snapshot() is capacity bytes long and equals
\* storage[writeOffset:capacity] ++ storage[0:writeOffset].
C9_SnapshotConstruction ==
    /\ Len(SnapshotNow) = BUFFER_SIZE
    /\ SnapshotNow = Rotated(circularBuffer, writeOffset)
    /\ snapshotOf.taken => Len(audioBuffer) = BUFFER_SIZE

C9_Witness ==
    /\ snapshotOf.taken
    /\ snapshotOf.total < BUFFER_SIZE
    /\ snapshotOf.committed[2] > 0
    /\ writeOffset > 0
    /\ Len(written) > BUFFER_SIZE
    /\ pc = "Handoff"

\* C10: a failed recognition call is logged and leads to the same teardown
\* as a successful one: the child is signalled, switchInput(originalInput)
\* is called once and the process exits through process.exit(0).
C10_HandoffFailureKeepsTeardown ==
    handoff = "failed" =>
        /\ "RapidAPI error" \in logged
        /\ pc \in {"TearingDown", "Done"}
        /\ exitStatus \in {"running", "exit0", "signal"}
        /\ exitStatus = "running"
              => pc = "TearingDown" /\ killCount = 0 /\ restoreCount = 0
        /\ exitStatus = "exit0"
              => /\ pc = "Done"
                 /\ killCount = 1
                 /\ restoreCount = 1
                 /\ switchCalls = <<BLACKHOLE_NAME, originalInput>>

C10_Witness ==
    /\ handoff = "failed"
    /\ exitStatus = "exit0"
    /\ killCount = 1
    /\ restoreCount = 1
    /\ ffmpegProcess = "signalled"

\* The place of position p in the path of main(), 0 if it was never there.
Pos(p) ==
    IF \E i \in 1..Len(visited) : visited[i] = p
    THEN CHOOSE i \in 1..Len(visited) : visited[i] = p
    ELSE 0

HasZero(buf) == \E i \in 1..Len(buf) : buf[i] = 0

C12_FullAfterWarmup ==
    /\ Pos("AwaitingTrigger") > 0 => Len(written) >= BUFFER_SIZE
    /\ snapshotOf.taken => ~HasZero(snapshotOf.bytes)

\* C12, amended: the warm-up timer fires whatever the capture has
\* delivered; a snapshot is free of the zero fill exactly when at least
\* capacity bytes had been written when it was taken.
C12_ZeroFillIffShort ==
    snapshotOf.taken
        => /\ Pos("WarmingUp") > 0
           /\ HasZero(snapshotOf.bytes) <=> snapshotOf.total < BUFFER_SIZE

C12_Witness ==
    /\ snapshotOf.taken
    /\ BUFFER_SIZE >= 3
    /\ snapshotOf.total >= BUFFER_SIZE
    /\ ~HasZero(snapshotOf.bytes)
    /\ pc = "Handoff"

\* C13: while the child has reported no error, has not exited and has not
\* been told to stop, it is still running and its chunks still reach the
\* ring, however many bytes it has emitted.
C13_CaptureNeverCutOff ==
    (/\ exitStatus = "running"
     /\ killCount = 0
     /\ ffmpegProcess \notin {"null", "unspawned", "spawn failed",
                              "errored", "exited"})
        => ffmpegProcess = "running"

\* C14: the capture start is preceded by a settling wait that follows the
\* device switch.
C14_SettlesBeforeCapture ==
    spawnCount > 0
        => /\ Pos("Settling") > Pos("Routed")
           /\ Pos("Settling") < Pos("Recording")

\* The spawn of the capture subprocess failed: exec() threw, or the child
\* object reported the failure.
SpawnFailed ==
    \/ ffmpegProcess \in {"unspawned", "spawn failed"}
    \/ ffmpegProcess = "null" /\ spawnCount > 0

\* C15: a failed spawn aborts the session: no warm-up wait, trigger wait,
\* snapshot or handoff, no second spawn, and the device is restored.
C15_SpawnFailureAborts ==
    SpawnFailed
        => /\ Pos("WarmingUp") = 0
           /\ Pos("AwaitingTrigger") = 0
           /\ ~snapshotOf.taken
           /\ handoff = "none"
           /\ spawnCount = 1
           /\ exitStatus = "exit0" => restoreCount = 1

\* C16: a failed device query ends the process at once: no switchInput
\* call of either kind, no spawn, no snapshot, the device untouched.
C16_QueryFailureAborts ==
    /\ "SwitchAudioSource not found" \in logged <=> exitStatus = "exit1"
    /\ "SwitchAudioSource not found" \in logged
          => /\ visited = <<"Setup", "Done">>
             /\ switchCalls = <<>>
             /\ restoreCount = 0
             /\ spawnCount = 0
             /\ ffmpegProcess = "null"
             /\ ~snapshotOf.taken
             /\ currentDevice = StartDevice

C16_Witness ==
    /\ exitStatus = "exit1"
    /\ pc = "Done"
    /\ originalInput = "none"

\* C17: a child that reported an error or exited has had the condition
\* logged, is never replaced, and leaves the ring as the last write left it.
C17_CaptureFailureLogged ==
    ffmpegProcess \in {"spawn failed", "errored", "exited"}
        => /\ logged \cap {"FFmpeg error", "FFmpeg exited"} # {}
           /\ spawnCount = 1
           /\ <<circularBuffer, writeOffset>> = committed

\* The order of the positions of main().
Rank(p) ==
    CASE p = "Setup" -> 1
      [] p = "Routed" -> 2
      [] p = "Recording" -> 3
      [] p = "WarmingUp" -> 4
      [] p = "AwaitingTrigger" -> 5
      [] p = "Snapshotting" -> 6
      [] p = "Handoff" -> 7
      [] p = "TearingDown" -> 8
      [] p = "Done" -> 9
      [] OTHER -> 0

\* C18: main() moves from each position to the next one, or forward to
\* TearingDown on an error, and reaches Done once, from TearingDown, with
\* the child signalled and the restoration invoked.  Stated for the runs
\* that got as far as switching the device away.
C18_OrderedAndTornDown ==
    Len(switchCalls) >= 1
        => /\ \A i \in 1..(Len(visited) - 1) :
                \/ Rank(visited[i + 1]) = Rank(visited[i]) + 1
                \/ /\ visited[i + 1] = "TearingDown"
                   /\ Rank(visited[i]) < Rank("TearingDown")
           /\ pc = "Done"
                => /\ visited[Len(visited) - 1] = "TearingDown"
                   /\ restoreCount = 1
                   /\ ffmpegProcess # "null" => killCount = 1

\* C19: getSnapshot() leaves storage and writeOffset as they were, and the
\* bytes it returned stay what they were whatever is written afterwards.
C19_SnapshotIsolated ==
    snapshotOf.taken
        => /\ snapshotOf.left = snapshotOf.committed
           /\ audioBuffer = snapshotOf.bytes

C19_Witness ==
    /\ snapshotOf.taken
    /\ snapshotOf.committed[2] > 0
    /\ Len(written) > snapshotOf.total + BUFFER_SIZE
    /\ circularBuffer # snapshotOf.committed[1]
    /\ audioBuffer = Rotated(snapshotOf.committed[1], snapshotOf.committed[2])

\* C20: inside a write call every iteration starts with room in the ring
\* and copies at least one byte, the chunk is consumed exactly, and a chunk
\* of L bytes takes at most L \div capacity + 2 iterations; an empty chunk
\* takes none and leaves the ring as it was.
C20_WriteLoopBounded ==
    listener = "writing"
        => /\ chunkOffset + remaining = Len(chunk)
           /\ chunkOffset >= iters
           /\ iters <= (Len(chunk) \div BUFFER_SIZE) + 2
           /\ remaining > 0
                => /\ writeOffset < BUFFER_SIZE
                   /\ Min(BUFFER_SIZE - writeOffset, remaining) >= 1
           /\ Len(chunk) = 0
                => /\ iters = 0
                   /\ <<circularBuffer, writeOffset>> = committed

C20_Witness ==
    /\ WriteDone
    /\ BUFFER_SIZE = 4
    /\ offsetBefore = 3
    /\ Len(chunk) = 6
    /\ iters = 3

====
